---- MODULE Spec2Model ----
(***************************************************************************)
(* Data preparation and evaluation pipeline of GATNE (src/utils.py):       *)
(* walk corpus acquisition, vocabulary indexing, skip-gram pair            *)
(* generation, walk persistence, neighbour sampling and edge evaluation.   *)
(* Python lists are sequences; Python index k of a list is position k+1.   *)
(***************************************************************************)
EXTENDS Integers, Sequences, FiniteSets, TLC

VARIABLES
    pc,           \* position of the running routine
    all_walks,    \* per-layer walk corpus (list of layers, each a list of walks)
    layer_walks,  \* walks the walker has produced for the layer in progress
    vocab,        \* generate_vocab: word -> [count, index]
    index2word,   \* generate_vocab: list of words, position = index
    window_size,  \* generate_pairs argument
    pairs,        \* generate_pairs result
    walk_file,    \* text of the persisted walk corpus, a list of characters
    loaded,       \* outcome of load_walks
    network_data, \* training edges by type: list of [type, edges], first-seen order
    nb,           \* generate_neighbors: its arguments, loop variables and table
    ev            \* evaluate: its lists, counters, threshold, predictions, outcome

genVars == <<vocab, index2word, window_size, pairs>>
ioVars == <<walk_file, loaded>>
nbVars == <<network_data, nb>>

vars == <<pc, all_walks, layer_walks, genVars, ioVars, nbVars, ev>>

---------------------------------------------------------------------------
(* Bounds of the generate() pipeline model *)

Tokens == {"a", "b", "c"}
EdgeTypes == {"t0", "t1"}
MaxWalks == 2
MaxTotal == 3
MaxWindow == 4

None == "None"

---------------------------------------------------------------------------
(* Helpers on Python lists *)

At(list, k) == list[k + 1]

RECURSIVE SumLens(_)
SumLens(ws) == IF ws = <<>> THEN 0 ELSE Len(Head(ws)) + SumLens(Tail(ws))

RECURSIVE Concat(_)
Concat(ss) == IF ss = <<>> THEN <<>> ELSE Head(ss) \o Concat(Tail(ss))

TotalTokens(walks_by_layer) == SumLens(Concat(walks_by_layer))

WalkSet(nodes, n) == UNION {[1..k -> nodes] : k \in 0..n}

---------------------------------------------------------------------------
(* generate_vocab *)

\* the words of every walk of every layer, in the traversal order of the
\* three nested loops
WordStream(walks_by_layer) == Concat(Concat(walks_by_layer))

\* raw_vocab[word] += 1 on a dict that keeps its keys in insertion order
RECURSIVE CountWords(_, _)
CountWords(stream, raw) ==
    IF stream = <<>> THEN raw
    ELSE LET word == Head(stream)
             seen == \E k \in 1..Len(raw.keys) : raw.keys[k] = word
             next == IF seen
                     THEN [raw EXCEPT !.count[word] = @ + 1]
                     ELSE [keys |-> Append(raw.keys, word),
                           count |-> [w \in DOMAIN raw.count \cup {word} |->
                                        IF w = word THEN 1 ELSE raw.count[w]]]
         IN CountWords(Tail(stream), next)

EmptyDict == [keys |-> <<>>, count |-> [w \in {} |-> 0]]

\* list.sort(key=count, reverse=True): stable, equal counts keep their order
RECURSIVE InsertByCount(_, _, _)
InsertByCount(word, sorted, count) ==
    IF sorted = <<>> THEN <<word>>
    ELSE IF count[Head(sorted)] >= count[word]
         THEN <<Head(sorted)>> \o InsertByCount(word, Tail(sorted), count)
         ELSE <<word>> \o sorted

\* variant: the list stays in discovery order
SortByCountDesc_unsorted(list, count) == list

RECURSIVE SortByCountDesc(_, _)
SortByCountDesc(list, count) ==
    IF list = <<>> THEN <<>>
    ELSE InsertByCount(list[Len(list)],
                       SortByCountDesc(SubSeq(list, 1, Len(list) - 1), count),
                       count)

PositionOf(word, list) == CHOOSE k \in 1..Len(list) : list[k] = word

\* variant: the index is the rank of the count, so equal counts share one
generate_vocab_rank(walks_by_layer) ==
    LET raw == CountWords(WordStream(walks_by_layer), EmptyDict)
        i2w == SortByCountDesc(raw.keys, raw.count)
    IN [vocab |-> [w \in DOMAIN raw.count |->
                     [count |-> raw.count[w],
                      index |-> Cardinality({u \in DOMAIN raw.count :
                                               raw.count[u] > raw.count[w]})]],
        index2word |-> i2w]

generate_vocab(walks_by_layer) ==
    LET raw == CountWords(WordStream(walks_by_layer), EmptyDict)
        i2w == SortByCountDesc(raw.keys, raw.count)
    IN [vocab |-> [w \in DOMAIN raw.count |->
                     [count |-> raw.count[w], index |-> PositionOf(w, i2w) - 1]],
        index2word |-> i2w]

---------------------------------------------------------------------------
(* generate_pairs *)

PairsAt(walk, i, j, layer_id, voc) ==
    (IF i - j >= 0
     THEN <<<<voc[At(walk, i)].index, voc[At(walk, i - j)].index, layer_id>>>>
     ELSE <<>>)
    \o
    (IF i + j < Len(walk)
     THEN <<<<voc[At(walk, i)].index, voc[At(walk, i + j)].index, layer_id>>>>
     ELSE <<>>)

RECURSIVE PairsOverJ(_, _, _, _, _, _)
PairsOverJ(walk, i, j, skip_window, layer_id, voc) ==
    IF j > skip_window THEN <<>>
    ELSE PairsAt(walk, i, j, layer_id, voc)
         \o PairsOverJ(walk, i, j + 1, skip_window, layer_id, voc)

RECURSIVE PairsOverI(_, _, _, _, _)
PairsOverI(walk, i, skip_window, layer_id, voc) ==
    IF i >= Len(walk) THEN <<>>
    ELSE PairsOverJ(walk, i, 1, skip_window, layer_id, voc)
         \o PairsOverI(walk, i + 1, skip_window, layer_id, voc)

RECURSIVE PairsOverWalks(_, _, _, _)
PairsOverWalks(walks, skip_window, layer_id, voc) ==
    IF walks = <<>> THEN <<>>
    ELSE PairsOverI(Head(walks), 0, skip_window, layer_id, voc)
         \o PairsOverWalks(Tail(walks), skip_window, layer_id, voc)

RECURSIVE PairsOverLayers(_, _, _, _)
PairsOverLayers(walks_by_layer, layer_id, skip_window, voc) ==
    IF layer_id >= Len(walks_by_layer) THEN <<>>
    ELSE PairsOverWalks(At(walks_by_layer, layer_id), skip_window, layer_id, voc)
         \o PairsOverLayers(walks_by_layer, layer_id + 1, skip_window, voc)

\* variant: the window is not halved
generate_pairs_fullwindow(walks_by_layer, voc, ws) ==
    PairsOverLayers(walks_by_layer, 0, ws, voc)

generate_pairs(walks_by_layer, voc, ws) ==
    LET skip_window == ws \div 2
    IN PairsOverLayers(walks_by_layer, 0, skip_window, voc)

---------------------------------------------------------------------------
(* generate(): walk generation, then vocabulary, then pairs *)

Init ==
    /\ pc = "walking"
    /\ all_walks = <<>>
    /\ layer_walks = <<>>
    /\ vocab = None
    /\ index2word = None
    /\ window_size = None
    /\ pairs = None
    /\ walk_file = None
    /\ loaded = None
    /\ network_data = None
    /\ nb = None
    /\ ev = None

\* the external walker hands back one more walk of the layer in progress
SimulateWalkOf(nodes, max_walks, max_total) ==
    /\ pc = "walking"
    /\ Len(all_walks) < Cardinality(EdgeTypes)
    /\ Len(layer_walks) < max_walks
    /\ \E walk \in WalkSet(nodes, max_total) :
          /\ TotalTokens(all_walks) + SumLens(layer_walks) + Len(walk) <= max_total
          /\ layer_walks' = Append(layer_walks, walk)
    /\ UNCHANGED <<pc, all_walks, genVars, ioVars, nbVars, ev>>

SimulateWalk == SimulateWalkOf(Tokens, MaxWalks, MaxTotal)

\* all_walks.append(layer_walks)
AppendLayer ==
    /\ pc = "walking"
    /\ Len(all_walks) < Cardinality(EdgeTypes)
    /\ all_walks' = Append(all_walks, layer_walks)
    /\ layer_walks' = <<>>
    /\ UNCHANGED <<pc, genVars, ioVars, nbVars, ev>>

FinishWalks ==
    /\ pc = "walking"
    /\ layer_walks = <<>>
    /\ pc' = "vocab"
    /\ UNCHANGED <<all_walks, layer_walks, genVars, ioVars, nbVars, ev>>

GenerateVocab ==
    /\ pc = "vocab"
    /\ LET r == generate_vocab(all_walks)
       IN /\ vocab' = r.vocab
          /\ index2word' = r.index2word
    /\ pc' = "pairs"
    /\ UNCHANGED <<all_walks, layer_walks, window_size, pairs, ioVars, nbVars, ev>>

GeneratePairs ==
    /\ pc = "pairs"
    /\ \E ws \in 0..MaxWindow :
          /\ window_size' = ws
          /\ pairs' = generate_pairs(all_walks, vocab, ws)
    /\ pc' = "done"
    /\ UNCHANGED <<all_walks, layer_walks, vocab, index2word, ioVars, nbVars, ev>>

Next == SimulateWalk \/ AppendLayer \/ FinishWalks \/ GenerateVocab \/ GeneratePairs

Spec == Init /\ [][Next]_vars

---------------------------------------------------------------------------
(* Properties of the generate() pipeline *)

VocabBuilt == pc \in {"pairs", "done"}

\* every place a word occurs at: <<layer, walk, position>>
Occurrences(walks_by_layer) ==
    UNION {UNION {{<<l, k, p>> : p \in 1..Len(walks_by_layer[l][k])} :
                     k \in 1..Len(walks_by_layer[l])} :
              l \in 1..Len(walks_by_layer)}

WordAt(walks_by_layer, o) == walks_by_layer[o[1]][o[2]][o[3]]

Observed(walks_by_layer) ==
    {WordAt(walks_by_layer, o) : o \in Occurrences(walks_by_layer)}

OccurrenceCount(walks_by_layer, word) ==
    Cardinality({o \in Occurrences(walks_by_layer) : WordAt(walks_by_layer, o) = word})

LayersOf(walks_by_layer, word) ==
    {o[1] : o \in {q \in Occurrences(walks_by_layer) : WordAt(walks_by_layer, q) = word}}

\* C1: generate_vocab gives every word observed in any walk of any layer
\* exactly one index, and the indices used are exactly 0 .. |V|-1 with no gap
\* and no index shared by two words.
C1_DenseIndex ==
    VocabBuilt =>
        LET observed == Observed(all_walks)
        IN /\ DOMAIN vocab = observed
           /\ {vocab[w].index : w \in DOMAIN vocab} = 0..(Cardinality(observed) - 1)
           /\ \A u, w \in DOMAIN vocab : vocab[u].index = vocab[w].index => u = w

C1_Witness ==
    /\ VocabBuilt
    /\ Cardinality(DOMAIN vocab) >= 2
    /\ \E w \in DOMAIN vocab : Cardinality(LayersOf(all_walks, w)) >= 2

\* C2: a word with strictly more occurrences over all walks of all layers has
\* a strictly smaller index.
C2_CountOrder ==
    VocabBuilt =>
        LET occ == Occurrences(all_walks)
            n == [w \in DOMAIN vocab |->
                    Cardinality({o \in occ : WordAt(all_walks, o) = w})]
        IN \A u, w \in DOMAIN vocab : n[u] > n[w] => vocab[u].index < vocab[w].index

\* a less frequent word is discovered before a more frequent one
C2_Witness ==
    /\ VocabBuilt
    /\ Len(WordStream(all_walks)) >= 3
    /\ \E u, w \in DOMAIN vocab :
          /\ OccurrenceCount(all_walks, u) > OccurrenceCount(all_walks, w)
          /\ Head(WordStream(all_walks)) = w

\* the emissions the window rule allows: <<layer, walk, i, j, direction>>,
\* layer, walk and i counted from 0
Emissions ==
    LET half == window_size \div 2
        inWalk(l, k) ==
            LET n == Len(At(At(all_walks, l), k))
            IN {e \in {l} \X {k} \X (0..(n - 1)) \X (1..half) \X {-1, 1} :
                   /\ e[3] + e[5] * e[4] >= 0
                   /\ e[3] + e[5] * e[4] < n}
    IN UNION {UNION {inWalk(l, k) : k \in 0..(Len(At(all_walks, l)) - 1)} :
                 l \in 0..(Len(all_walks) - 1)}

TripleOf(e) ==
    LET walk == At(At(all_walks, e[1]), e[2])
    IN <<vocab[At(walk, e[3])].index, vocab[At(walk, e[3] + e[5] * e[4])].index, e[1]>>

Times(t, list) == Cardinality({k \in 1..Len(list) : list[k] = t})

\* C3: generate_pairs emits, for every layer, walk, position i and distance
\* j in 1..windowSize \div 2, one triple for the left neighbour iff i-j >= 0 and
\* one for the right neighbour iff i+j < len(walk), tagged with the walk's
\* layer, and nothing else; nothing is deduplicated.
C3_WindowPairs ==
    pc = "done" =>
        LET allowed == Emissions
            triples == [e \in allowed |-> TripleOf(e)]
        IN /\ Len(pairs) = Cardinality(allowed)
           /\ \A e \in allowed :
                 Times(triples[e], pairs) =
                     Cardinality({f \in allowed : triples[f] = triples[e]})
           /\ (all_walks = << << <<"a", "b", "c">> >> >> /\ window_size = 2) =>
                 LET a == vocab["a"].index
                     b == vocab["b"].index
                     c == vocab["c"].index
                 IN /\ Len(pairs) = 4
                    /\ {pairs[k] : k \in 1..4} =
                           {<<b, a, 0>>, <<a, b, 0>>, <<b, c, 0>>, <<c, b, 0>>}

C3_Witness ==
    /\ pc = "done"
    /\ all_walks = << << <<"a", "b", "c">> >> >>
    /\ window_size = 2
    /\ Len(pairs) = 4

\* the corpora obtained by exchanging two neighbouring layers, two
\* neighbouring walks of a layer, or two neighbouring words of a walk
SwapAt(list, k) == [list EXCEPT ![k] = list[k + 1], ![k + 1] = list[k]]

Reorderings(walks_by_layer) ==
    {SwapAt(walks_by_layer, l) : l \in 1..(Len(walks_by_layer) - 1)}
    \cup
    {[walks_by_layer EXCEPT ![o[1]] = SwapAt(@, o[2])] :
        o \in {q \in (1..Len(walks_by_layer)) \X (1..MaxWalks) :
                  q[2] < Len(walks_by_layer[q[1]])}}
    \cup
    {[walks_by_layer EXCEPT ![o[1]][o[2]] = SwapAt(@, o[3])] :
        o \in {q \in Occurrences(walks_by_layer) :
                  q[3] < Len(walks_by_layer[q[1]][q[2]])}}

IndexMap(voc) == [w \in DOMAIN voc |-> voc[w].index]

\* C9: corpora with the same word occurrences presented in a different
\* traversal order get the same word-to-index mapping.
C9_OrderIndependent ==
    VocabBuilt =>
        \A other \in Reorderings(all_walks) :
            IndexMap(generate_vocab(other).vocab) = IndexMap(vocab)

---------------------------------------------------------------------------
(* save_walks / load_walks                                                 *)
(* A Python string is the list of its characters.  A node identifier is a  *)
(* Python object: its type and the characters str() renders it with.       *)

StrObj(chars) == [type |-> "str", text |-> chars]
IntObj(chars) == [type |-> "int", text |-> chars]

IoNodes == {StrObj(<<"a">>), StrObj(<<"b">>), IntObj(<<"7">>)}
IoMaxWalks == 2
IoMaxTotal == 2
IoMaxLines == 3
IoMaxLayerId == 2

Digits == <<"0", "1", "2", "3", "4", "5", "6", "7", "8", "9">>
Whitespace == {" ", "\n", "\t"}

\* str(n) of a non-negative integer
RECURSIVE PyStrInt(_)
PyStrInt(n) ==
    IF n < 10 THEN <<Digits[n + 1]>>
    ELSE PyStrInt(n \div 10) \o <<Digits[(n % 10) + 1]>>

\* str(x) of a node identifier
PyStr(x) == x.text

IsDigit(ch) == \E d \in 1..10 : Digits[d] = ch

DigitValue(ch) == (CHOOSE d \in 1..10 : Digits[d] = ch) - 1

\* int(text) accepts a run of decimal digits and raises ValueError otherwise
IsIntText(chars) == chars # <<>> /\ \A k \in 1..Len(chars) : IsDigit(chars[k])

RECURSIVE PyInt(_)
PyInt(chars) ==
    IF Len(chars) = 1 THEN DigitValue(chars[1])
    ELSE 10 * PyInt(SubSeq(chars, 1, Len(chars) - 1)) + DigitValue(chars[Len(chars)])

\* ' '.join(fields)
RECURSIVE JoinSpace(_)
JoinSpace(fields) ==
    IF fields = <<>> THEN <<>>
    ELSE IF Len(fields) = 1 THEN Head(fields)
    ELSE Head(fields) \o <<" ">> \o JoinSpace(Tail(fields))

\* line.strip().split(): the maximal runs of non-whitespace characters
RECURSIVE SplitFrom(_, _, _)
SplitFrom(chars, field, fields) ==
    IF chars = <<>>
    THEN IF field = <<>> THEN fields ELSE Append(fields, field)
    ELSE IF Head(chars) \in Whitespace
         THEN SplitFrom(Tail(chars), <<>>,
                        IF field = <<>> THEN fields ELSE Append(fields, field))
         ELSE SplitFrom(Tail(chars), Append(field, Head(chars)), fields)

Split(chars) == SplitFrom(chars, <<>>, <<>>)

\* for line in f: the text cut after every newline
RECURSIVE LinesFrom(_, _, _)
LinesFrom(chars, line, lines) ==
    IF chars = <<>>
    THEN IF line = <<>> THEN lines ELSE Append(lines, line)
    ELSE IF Head(chars) = "\n"
         THEN LinesFrom(Tail(chars), <<>>, Append(lines, Append(line, "\n")))
         ELSE LinesFrom(Tail(chars), Append(line, Head(chars)), lines)

FileLines(chars) == LinesFrom(chars, <<>>, <<>>)

\* f.write(' '.join([str(layer_id)] + [str(x) for x in walk]) + '\n')
WalkLine(layer_id, walk) ==
    JoinSpace(<<PyStrInt(layer_id)>> \o [k \in 1..Len(walk) |-> PyStr(walk[k])])
    \o <<"\n">>

RECURSIVE SaveLayerWalks(_, _)
SaveLayerWalks(layer_id, walks) ==
    IF walks = <<>> THEN <<>>
    ELSE WalkLine(layer_id, Head(walks)) \o SaveLayerWalks(layer_id, Tail(walks))

RECURSIVE SaveFromLayer(_, _)
SaveFromLayer(walks_by_layer, layer_id) ==
    IF layer_id >= Len(walks_by_layer) THEN <<>>
    ELSE SaveLayerWalks(layer_id, At(walks_by_layer, layer_id))
         \o SaveFromLayer(walks_by_layer, layer_id + 1)

save_walks(walks_by_layer) == SaveFromLayer(walks_by_layer, 0)

Raised(error) == [status |-> error, walks |-> <<>>]

\* one pass of the loop body of load_walks over a line
LoadLine(line, walks_by_layer) ==
    LET content == Split(line)
    IN IF content = <<>> THEN Raised("IndexError")
       ELSE IF ~IsIntText(content[1]) THEN Raised("ValueError")
       ELSE LET layer_id == PyInt(content[1])
                grown == IF layer_id >= Len(walks_by_layer)
                         THEN Append(walks_by_layer, <<>>)
                         ELSE walks_by_layer
                walk == [k \in 1..(Len(content) - 1) |-> StrObj(content[k + 1])]
            IN IF layer_id >= Len(grown) THEN Raised("IndexError")
               ELSE [status |-> "returned",
                     walks |-> [grown EXCEPT ![layer_id + 1] = Append(@, walk)]]

RECURSIVE LoadLines(_, _)
LoadLines(lines, walks_by_layer) ==
    IF lines = <<>> THEN [status |-> "returned", walks |-> walks_by_layer]
    ELSE LET r == LoadLine(Head(lines), walks_by_layer)
         IN IF r.status # "returned" THEN r
            ELSE LoadLines(Tail(lines), r.walks)

load_walks(chars) == LoadLines(FileLines(chars), <<>>)

InitIO ==
    /\ pc = "walking"
    /\ all_walks = <<>>
    /\ layer_walks = <<>>
    /\ vocab = None
    /\ index2word = None
    /\ window_size = None
    /\ pairs = None
    /\ walk_file = <<>>
    /\ loaded = None
    /\ network_data = None
    /\ nb = None
    /\ ev = None

IoSimulateWalk == SimulateWalkOf(IoNodes, IoMaxWalks, IoMaxTotal)

\* generate(): save_walks(file_name + '/walks.txt', all_walks)
SaveWalks ==
    /\ pc = "walking"
    /\ layer_walks = <<>>
    /\ walk_file' = save_walks(all_walks)
    /\ pc' = "saved"
    /\ UNCHANGED <<all_walks, layer_walks, genVars, loaded, nbVars, ev>>

\* a corpus file handed in with --walk-file, one more line of it
SuppliedLine ==
    /\ pc \in {"walking", "supplied"}
    /\ all_walks = <<>> /\ layer_walks = <<>>
    /\ Len(FileLines(walk_file)) < IoMaxLines
    /\ \E layer_id \in 0..IoMaxLayerId, walk \in WalkSet({StrObj(<<"a">>)}, 1) :
          walk_file' = walk_file \o WalkLine(layer_id, walk)
    /\ pc' = "supplied"
    /\ UNCHANGED <<all_walks, layer_walks, genVars, loaded, nbVars, ev>>

\* generate(): all_walks = load_walks(walk_file)
LoadWalks ==
    /\ pc \in {"saved", "supplied"}
    /\ loaded' = load_walks(walk_file)
    /\ pc' = IF pc = "saved" THEN "reloaded" ELSE "loaded"
    /\ UNCHANGED <<all_walks, layer_walks, genVars, walk_file, nbVars, ev>>

NextIO == IoSimulateWalk \/ AppendLayer \/ SaveWalks \/ SuppliedLine \/ LoadWalks

SpecIO == InitIO /\ [][NextIO]_vars

\* C6: loading what save_walks wrote gives back the corpus that was saved:
\* the same layers, the same walks in each layer, in the same order.
C6_RoundTrip ==
    pc = "reloaded" => loaded = [status |-> "returned", walks |-> all_walks]

\* the layer index each line of the file carries
LineLayerIds(chars) ==
    LET lines == FileLines(chars)
    IN [k \in 1..Len(lines) |-> PyInt(Split(lines[k])[1])]

\* a line whose layer index is below one seen earlier, or beyond the next
\* unseen layer
OutOfOrder(ids) ==
    \E k \in 1..Len(ids) :
        \/ \E h \in 1..(k - 1) : ids[k] < ids[h]
        \/ ids[k] > Cardinality({ids[h] : h \in 1..(k - 1)})

\* C10: a corpus file whose layer indices are out of order makes the whole
\* load fail; no walk structure comes back.
C10_OutOfOrderFails ==
    (pc = "loaded" /\ OutOfOrder(LineLayerIds(walk_file)))
        => loaded.status # "returned"

---------------------------------------------------------------------------
(* load_training_data and generate_neighbors *)

NbNodes == {"a", "b"}
NbMaxEdges == 3
NbMaxSamples == 2

Range(list) == {list[k] : k \in 1..Len(list)}

TypeNames(data) == [k \in 1..Len(data) |-> data[k].type]

\* edge_data_by_type[words[0]].append((x, y)), a new key going last
AddEdge(data, type, x, y) ==
    IF \E k \in 1..Len(data) : data[k].type = type
    THEN [k \in 1..Len(data) |->
            IF data[k].type = type
            THEN [data[k] EXCEPT !.edges = Append(@, <<x, y>>)]
            ELSE data[k]]
    ELSE Append(data, [type |-> type, edges |-> <<<<x, y>>>>])

EdgeTotal(data) == SumLens([k \in 1..Len(data) |-> data[k].edges])

\* the loop over the edges of one type: both endpoints record each other
RECURSIVE AccumulateEdges(_, _, _, _)
AccumulateEdges(edges, table, r, voc) ==
    IF edges = <<>> THEN table
    ELSE LET ix == voc[Head(edges)[1]].index
             iy == voc[Head(edges)[2]].index
             t1 == [table EXCEPT ![ix][r] = Append(@, iy)]
             t2 == [t1 EXCEPT ![iy][r] = Append(@, ix)]
         IN AccumulateEdges(Tail(edges), t2, r, voc)

\* variant: positions of the list are drawn instead of its members
Choices_positions(list, size) == [1..size -> 0..(Len(list) - 1)]

\* the lists np.random.choice(list, size=size) can return
Choices(list, size) == [1..size -> Range(list)]

\* the vocabulary of a corpus in which c is the most frequent node and no
\* training edge of the model touches it
NbVocab == generate_vocab(<< << <<"c", "b", "a", "c", "b", "c">> >> >>).vocab

InitNB ==
    /\ pc = "training_data"
    /\ all_walks = <<>>
    /\ layer_walks = <<>>
    /\ vocab = NbVocab
    /\ index2word = None
    /\ window_size = None
    /\ pairs = None
    /\ walk_file = None
    /\ loaded = None
    /\ network_data = <<>>
    /\ nb = None
    /\ ev = None

\* load_training_data: one more line of the training file
LoadTrainingEdge ==
    /\ pc = "training_data"
    /\ EdgeTotal(network_data) < NbMaxEdges
    /\ \E type \in EdgeTypes, x \in NbNodes, y \in NbNodes :
          network_data' = AddEdge(network_data, type, x, y)
    /\ UNCHANGED <<pc, all_walks, layer_walks, genVars, ioVars, nb, ev>>

\* generate_neighbors up to the first pass of the loop over edge types
StartNeighbors ==
    /\ pc = "training_data"
    /\ \E neighbor_samples \in 0..NbMaxSamples :
          LET num_nodes == Cardinality(DOMAIN vocab)
              edge_type_count == Len(TypeNames(network_data))
              empty == [i \in 0..(num_nodes - 1) |->
                          [r \in 0..(edge_type_count - 1) |-> <<>>]]
          IN nb' = [num_nodes |-> num_nodes,
                    neighbor_samples |-> neighbor_samples,
                    edge_type_count |-> edge_type_count,
                    r |-> 0, i |-> 0,
                    raw |-> empty,
                    neighbors |-> empty]
    /\ pc' = IF network_data = <<>> THEN "returned" ELSE "accumulate"
    /\ UNCHANGED <<all_walks, layer_walks, genVars, ioVars, network_data, ev>>

\* for (x, y) in g: the raw neighbour lists of edge type r
Accumulate ==
    /\ pc = "accumulate"
    /\ LET g == At(network_data, nb.r).edges
           table == AccumulateEdges(g, nb.neighbors, nb.r, vocab)
           \* raw keeps the lists of type r as the edge loop left them
           kept == [i \in DOMAIN table |-> [nb.raw[i] EXCEPT ![nb.r] = table[i][nb.r]]]
       IN nb' = [nb EXCEPT !.neighbors = table, !.raw = kept, !.i = 0]
    /\ pc' = "reconcile"
    /\ UNCHANGED <<all_walks, layer_walks, genVars, ioVars, network_data, ev>>

\* variant: a list longer than neighbor_samples is left as it is
Reconcile_untrimmed ==
    /\ pc = "reconcile"
    /\ nb.i < nb.num_nodes
    /\ LET i == nb.i
           r == nb.r
           list == nb.neighbors[i][r]
           size == nb.neighbor_samples
       IN \/ /\ Len(list) = 0
             /\ nb' = [nb EXCEPT !.neighbors[i][r] = [k \in 1..size |-> i],
                                 !.i = i + 1]
          \/ /\ Len(list) # 0 /\ Len(list) < size
             /\ \E extra \in [1..(size - Len(list)) -> Range(list)] :
                   nb' = [nb EXCEPT !.neighbors[i][r] = list \o extra, !.i = i + 1]
          \/ /\ Len(list) # 0 /\ Len(list) >= size
             /\ nb' = [nb EXCEPT !.i = i + 1]
    /\ UNCHANGED <<pc, all_walks, layer_walks, genVars, ioVars, network_data, ev>>

\* for i in range(num_nodes): the list of node i is brought to neighbor_samples
Reconcile ==
    /\ pc = "reconcile"
    /\ nb.i < nb.num_nodes
    /\ LET i == nb.i
           r == nb.r
           list == nb.neighbors[i][r]
           size == nb.neighbor_samples
       IN \/ /\ Len(list) = 0
             /\ nb' = [nb EXCEPT !.neighbors[i][r] = [k \in 1..size |-> i],
                                 !.i = i + 1]
          \/ /\ Len(list) # 0 /\ Len(list) < size
             /\ \E extra \in Choices(list, size - Len(list)) :
                   nb' = [nb EXCEPT !.neighbors[i][r] = list \o extra, !.i = i + 1]
          \/ /\ Len(list) # 0 /\ Len(list) > size
             /\ \E drawn \in Choices(list, size) :
                   nb' = [nb EXCEPT !.neighbors[i][r] = drawn, !.i = i + 1]
          \/ /\ Len(list) # 0 /\ Len(list) = size
             /\ nb' = [nb EXCEPT !.i = i + 1]
    /\ UNCHANGED <<pc, all_walks, layer_walks, genVars, ioVars, network_data, ev>>

\* the next edge type, or return neighbors
NextEdgeType ==
    /\ pc = "reconcile"
    /\ nb.i = nb.num_nodes
    /\ nb' = [nb EXCEPT !.r = @ + 1]
    /\ pc' = IF nb.r + 1 < nb.edge_type_count THEN "accumulate" ELSE "returned"
    /\ UNCHANGED <<all_walks, layer_walks, genVars, ioVars, network_data, ev>>

NextNB == LoadTrainingEdge \/ StartNeighbors \/ Accumulate \/ Reconcile \/ NextEdgeType

SpecNB == InitNB /\ [][NextNB]_vars

Cells == {c \in (0..(nb.num_nodes - 1)) \X (0..(nb.edge_type_count - 1)) : TRUE}

\* C4: when generate_neighbors returns, every neighbors[i][r] has exactly
\* neighbor_samples entries, whatever number of raw entries (i, r) had.
C4_FixedLength ==
    pc = "returned" =>
        \A c \in Cells : Len(nb.neighbors[c[1]][c[2]]) = nb.neighbor_samples

C4_Witness ==
    /\ pc = "returned"
    /\ \E c \in Cells : Len(nb.raw[c[1]][c[2]]) = 0
    /\ \E c \in Cells : Len(nb.raw[c[1]][c[2]]) > nb.neighbor_samples
    /\ \E c \in Cells : /\ Len(nb.raw[c[1]][c[2]]) > 0
                        /\ Len(nb.raw[c[1]][c[2]]) < nb.neighbor_samples

\* the number of edge endpoints of type r that sit on node index i
EndpointCount(i, r) ==
    LET g == At(network_data, r).edges
    IN Cardinality({k \in 1..Len(g) : vocab[g[k][1]].index = i})
       + Cardinality({k \in 1..Len(g) : vocab[g[k][2]].index = i})

\* C5: the raw list R of (i, r) has one entry per raw edge endpoint on i, and
\* neighbors[i][r] is neighbor_samples copies of i when R is empty, R itself
\* when len(R) = neighbor_samples, R followed by members of R when R is
\* shorter, and members of R only when R is longer.
C5_ThreeWayPolicy ==
    pc = "returned" =>
        \A c \in Cells :
            LET i == c[1]
                R == nb.raw[c[1]][c[2]]
                N == nb.neighbors[c[1]][c[2]]
                size == nb.neighbor_samples
            IN /\ Len(R) = EndpointCount(i, c[2])
               /\ Len(R) = 0 => N = [k \in 1..size |-> i]
               /\ (Len(R) > 0 /\ Len(R) = size) => N = R
               /\ (Len(R) > 0 /\ Len(R) < size) =>
                     /\ SubSeq(N, 1, Len(R)) = R
                     /\ \A k \in (Len(R) + 1)..Len(N) : N[k] \in Range(R)
               /\ (Len(R) > size) => \A k \in 1..Len(N) : N[k] \in Range(R)
               /\ \A k \in 1..Len(N) : N[k] \in Range(R) \cup {i}

\* a node with a doubled edge to one neighbour, one short list, one long list
C5_Witness ==
    /\ pc = "returned"
    /\ nb.neighbor_samples = 2
    /\ \E c \in Cells : /\ Len(nb.raw[c[1]][c[2]]) = 2
                        /\ Cardinality(Range(nb.raw[c[1]][c[2]])) = 1
    /\ \E c \in Cells : Len(nb.raw[c[1]][c[2]]) = 1
    /\ \E c \in Cells : Len(nb.raw[c[1]][c[2]]) > 2

---------------------------------------------------------------------------
(* get_score and evaluate.  A score is the cosine similarity scaled to an  *)
(* integer; get_score gives None when a node has no embedding.             *)

Scores == {5, 6, 7, 8, 9}
EvMaxTrue == 2
EvMaxFalse == 3

\* sorted_pred.sort(): ascending
RECURSIVE InsertAsc(_, _)
InsertAsc(x, sorted) ==
    IF sorted = <<>> THEN <<x>>
    ELSE IF Head(sorted) <= x
         THEN <<Head(sorted)>> \o InsertAsc(x, Tail(sorted))
         ELSE <<x>> \o sorted

RECURSIVE SortAsc(_)
SortAsc(list) ==
    IF list = <<>> THEN <<>>
    ELSE InsertAsc(list[Len(list)], SortAsc(SubSeq(list, 1, Len(list) - 1)))

\* list[k] for a Python index k that may be negative
PyIndex(list, k) ==
    IF k >= 0 THEN k + 1 ELSE Len(list) + k + 1

\* variant: a score equal to the threshold is predicted 0
PredictAll_strict(prediction_list, threshold) ==
    [k \in 1..Len(prediction_list) |->
        IF prediction_list[k] > threshold THEN 1 ELSE 0]

\* y_pred[i] = 1 where prediction_list[i] >= threshold
PredictAll(prediction_list, threshold) ==
    [k \in 1..Len(prediction_list) |->
        IF prediction_list[k] >= threshold THEN 1 ELSE 0]

InitEV ==
    /\ pc = "true_edges"
    /\ all_walks = <<>>
    /\ layer_walks = <<>>
    /\ vocab = None
    /\ index2word = None
    /\ window_size = None
    /\ pairs = None
    /\ walk_file = None
    /\ loaded = None
    /\ network_data = None
    /\ nb = None
    /\ ev = [true_list |-> <<>>, prediction_list |-> <<>>, true_num |-> 0,
             true_seen |-> 0, false_seen |-> 0,
             threshold |-> 0, has_threshold |-> FALSE,
             y_pred |-> <<>>, outcome |-> "running"]

Others == <<all_walks, layer_walks, genVars, ioVars, nbVars>>

\* one pass of the loop over true_edges with a score
ScoreTrueEdge ==
    /\ pc = "true_edges"
    /\ ev.true_seen < EvMaxTrue
    /\ \E tmp_score \in Scores :
          ev' = [ev EXCEPT !.true_list = Append(@, 1),
                           !.prediction_list = Append(@, tmp_score),
                           !.true_num = @ + 1,
                           !.true_seen = @ + 1]
    /\ UNCHANGED <<pc, Others>>

\* one pass of the loop over true_edges, get_score gave None
SkipTrueEdge ==
    /\ pc = "true_edges"
    /\ ev.true_seen < EvMaxTrue
    /\ ev' = [ev EXCEPT !.true_seen = @ + 1]
    /\ UNCHANGED <<pc, Others>>

\* one pass of the loop over false_edges with a score
ScoreFalseEdge ==
    /\ pc \in {"true_edges", "false_edges"}
    /\ ev.false_seen < EvMaxFalse
    /\ \E tmp_score \in Scores :
          ev' = [ev EXCEPT !.true_list = Append(@, 0),
                           !.prediction_list = Append(@, tmp_score),
                           !.false_seen = @ + 1]
    /\ pc' = "false_edges"
    /\ UNCHANGED Others

\* one pass of the loop over false_edges, get_score gave None
SkipFalseEdge ==
    /\ pc \in {"true_edges", "false_edges"}
    /\ ev.false_seen < EvMaxFalse
    /\ ev' = [ev EXCEPT !.false_seen = @ + 1]
    /\ pc' = "false_edges"
    /\ UNCHANGED Others

\* threshold = sorted_pred[-true_num]
TakeThreshold ==
    /\ pc \in {"true_edges", "false_edges"}
    /\ LET sorted_pred == SortAsc(ev.prediction_list)
           at == PyIndex(sorted_pred, 0 - ev.true_num)
       IN IF at \in 1..Len(sorted_pred)
          THEN /\ ev' = [ev EXCEPT !.threshold = sorted_pred[at],
                                   !.has_threshold = TRUE]
               /\ pc' = "predict"
          ELSE /\ ev' = [ev EXCEPT !.outcome = "IndexError"]
               /\ pc' = "evaluated"
    /\ UNCHANGED Others

\* the loop that fills y_pred
Predict ==
    /\ pc = "predict"
    /\ ev' = [ev EXCEPT !.y_pred = PredictAll(ev.prediction_list, ev.threshold)]
    /\ pc' = "metrics"
    /\ UNCHANGED Others

\* precision_recall_curve, roc_auc_score, f1_score, auc: the metrics come
\* back; on labels of one class only the library may raise instead
Metrics ==
    /\ pc = "metrics"
    /\ \/ ev' = [ev EXCEPT !.outcome = "returned"]
       \/ /\ Cardinality(Range(ev.true_list)) < 2
          /\ ev' = [ev EXCEPT !.outcome = "ValueError"]
    /\ pc' = "evaluated"
    /\ UNCHANGED Others

NextEV ==
    \/ ScoreTrueEdge \/ SkipTrueEdge \/ ScoreFalseEdge \/ SkipFalseEdge
    \/ TakeThreshold \/ Predict \/ Metrics

SpecEV == InitEV /\ [][NextEV]_vars

Positives == Cardinality({k \in 1..Len(ev.y_pred) : ev.y_pred[k] = 1})

Above(v) == Cardinality({k \in 1..Len(ev.prediction_list) : ev.prediction_list[k] > v})

AtLeast(v) == Cardinality({k \in 1..Len(ev.prediction_list) : ev.prediction_list[k] >= v})

\* a score that is not among the trueNum largest equals the threshold
TieOutsideTop == AtLeast(ev.threshold) > ev.true_num

C8_DegenerateGuarded ==
    (pc \in {"predict", "metrics", "evaluated"} /\ ev.true_num = 0) =>
        /\ ~ev.has_threshold
        /\ pc = "evaluated" => ev.outcome # "returned"

====
